---- MODULE Spec2Model ----
(***************************************************************************)
(* Model of the Nextcloud mirror downloader (src/nextcloud_dl.py): the     *)
(* orchestrator `run`, the `download_worker` pool, the recursive walker    *)
(* `process_directory`, the asyncio queue that connects them, and the      *)
(* local file system they write to.  One action is one slice of a task     *)
(* between two suspension points of the event loop.                        *)
(***************************************************************************)
EXTENDS Integers, Sequences, FiniteSets, TLC

\* ------------------------------------------------------------------------
\* Configuration (Settings) and the remote tree served by the collaborator
\* ------------------------------------------------------------------------

\* settings.webdav.workers: size of the worker pool
NumWorkers == 2

\* one worker task too many: range(workers + 1)
WorkersOffByOne == 0..NumWorkers

Workers == 1..NumWorkers

\* str.lower() on one character of the alphabet used by the names below
LowerChar(c) ==
  CASE c = "B" -> "b"
    [] c = "K" -> "k"
    [] c = "N" -> "n"
    [] c = "T" -> "t"
    [] OTHER -> c

\* str.lower(): a name is a sequence of characters
lower(s) == [i \in 1..Len(s) |-> LowerChar(s[i])]

\* Validators.lowercase_list
lowercase_list(value) == {lower(i) : i \in value}

\* the `in` operator of str: sub occurs in s as a contiguous substring
StrContains(sub, s) ==
  \E i \in 0..(Len(s) - Len(sub)) : SubSeq(s, i + 1, i + Len(sub)) = sub

\* settings.filters.*, lower-cased by the BeforeValidator
ignore_files == lowercase_list({<<"K">>})
ignore_files_contains == lowercase_list({<<"T", "m">>})
ignore_folders == lowercase_list({<<"N">>})

\* settings.webdav.target_dirs joined to self.prefix: a remote path is a
\* sequence of segments, a segment a sequence of characters
target_dirs == << << <<"p">> >>, << <<"q">> >> >>

\* settings.destination: the local mirror root (a local path is a sequence
\* of segments below it)
settings_destination == << >>

\* PurePosixPath(...).name: the final path segment
PathName(path) == path[Len(path)]

\* client.list(str(source), get_info=True): the items of a remote directory
\*   p/     a (file)   s/ (dir)   N/ (dir)
\*   p/s/   B (file)   xTm (file)   u/ (dir, empty)
\*   p/N/   c (file)
\*   q/     a (file)   K (file)
ClientList(source) ==
  CASE source = << <<"p">> >> ->
         << [path |-> << <<"p">>, <<"a">> >>, isdir |-> FALSE],
            [path |-> << <<"p">>, <<"s">> >>, isdir |-> TRUE],
            [path |-> << <<"p">>, <<"N">> >>, isdir |-> TRUE] >>
    [] source = << <<"p">>, <<"s">> >> ->
         << [path |-> << <<"p">>, <<"s">>, <<"B">> >>, isdir |-> FALSE],
            [path |-> << <<"p">>, <<"s">>, <<"x", "T", "m">> >>, isdir |-> FALSE],
            [path |-> << <<"p">>, <<"s">>, <<"u">> >>, isdir |-> TRUE] >>
    [] source = << <<"p">>, <<"N">> >> ->
         << [path |-> << <<"p">>, <<"N">>, <<"c">> >>, isdir |-> FALSE] >>
    [] source = << <<"q">> >> ->
         << [path |-> << <<"q">>, <<"a">> >>, isdir |-> FALSE],
            [path |-> << <<"q">>, <<"K">> >>, isdir |-> FALSE] >>
    [] OTHER -> << >>

\* every remote directory and file of the tree
RemoteDirs ==
  { << <<"p">> >>, << <<"p">>, <<"s">> >>, << <<"p">>, <<"s">>, <<"u">> >>,
    << <<"p">>, <<"N">> >>, << <<"q">> >> }

Range(f) == {f[i] : i \in DOMAIN f}

RemoteFiles ==
  UNION { {it.path : it \in {x \in Range(ClientList(d)) : ~x.isdir}} : d \in RemoteDirs }

RootDirs == Range(target_dirs)

\* self.settings.filters
filters ==
  [ignore_files |-> ignore_files,
   ignore_files_contains |-> ignore_files_contains,
   ignore_folders |-> ignore_folders]

\* a filter that compares the name as listed, without lower-casing it
item_filtered_case_sensitive(flt, item, item_path) ==
  LET file_name == PathName(item_path)
  IN  IF item.isdir
        THEN file_name \notin flt.ignore_folders
        ELSE /\ file_name \notin flt.ignore_files
             /\ ~\E fn \in flt.ignore_files_contains : StrContains(fn, file_name)

\* the body of NextcloudDownloader.item_filtered for the filter settings
\* flt: TRUE = keep the item
item_filtered_with(flt, item, item_path) ==
  LET file_name == lower(PathName(item_path))
  IN  IF item.isdir
        THEN IF file_name \in flt.ignore_folders THEN FALSE ELSE TRUE
        ELSE IF file_name \in flt.ignore_files
               THEN FALSE
               ELSE IF \E fn \in flt.ignore_files_contains : StrContains(fn, file_name)
                      THEN FALSE
                      ELSE TRUE

\* NextcloudDownloader.item_filtered under the configured settings
item_filtered(item, item_path) == item_filtered_with(filters, item, item_path)

\* ------------------------------------------------------------------------
\* self.queue: asyncio.Queue() as the downloader uses it
\* ------------------------------------------------------------------------
\* items      the buffered jobs, (source, destination) pairs, in FIFO order
\* unfinished put_nowait calls not yet matched by a task_done call
\* finished   the event join() waits on
\* getters    workers suspended in get(), in arrival order
\* woken      workers whose get() has been woken and that have not run yet
\* shutdown   set by shutdown()
\* jwait      run is suspended in join();  jwoken: that wait has been woken
EmptyQueue ==
  [items |-> << >>, unfinished |-> 0, finished |-> TRUE, getters |-> << >>,
   woken |-> {}, shutdown |-> FALSE, jwait |-> FALSE, jwoken |-> FALSE]

\* wake the longest-waiting getter, if any
wakeup_next(qq) ==
  IF qq.getters = << >>
    THEN qq
    ELSE [qq EXCEPT !.getters = Tail(@), !.woken = @ \cup {Head(qq.getters)}]

\* self.queue.put_nowait((item["path"], str(file_destination)))
put_nowait(qq, job) ==
  wakeup_next([qq EXCEPT !.items = Append(@, job),
                         !.unfinished = @ + 1,
                         !.finished = FALSE])

\* self.queue.task_done()
task_done(qq) ==
  IF qq.unfinished - 1 = 0
    THEN [qq EXCEPT !.unfinished = 0,
                    !.finished = TRUE,
                    !.jwait = FALSE,
                    !.jwoken = qq.jwait \/ qq.jwoken]
    ELSE [qq EXCEPT !.unfinished = @ - 1]

\* a shutdown that wakes only the longest-waiting getter
shutdown_wakes_one(qq) ==
  wakeup_next([qq EXCEPT !.shutdown = TRUE])

\* self.queue.shutdown(): set the flag and wake every suspended getter
shutdown(qq) ==
  [qq EXCEPT !.shutdown = TRUE,
             !.getters = << >>,
             !.woken = @ \cup Range(qq.getters)]

\* a run that does not wait for the queue to drain
join_never_waits(qq) == FALSE

\* await self.queue.join(): suspends iff some job is not marked done
join_waits(qq) == qq.unfinished > 0

\* a get that hands out the oldest job and leaves it in the buffer
get_leaves_item(qq) == qq

\* the queue after get() has handed out its oldest job: the job is removed
\* from the buffer
get_nowait(qq) == [qq EXCEPT !.items = Tail(@)]

\* the put_nowait calls of one listing, in listing order
RECURSIVE PutAll(_, _)
PutAll(qq, jobs) ==
  IF jobs = << >> THEN qq ELSE PutAll(put_nowait(qq, Head(jobs)), Tail(jobs))

\* ------------------------------------------------------------------------
\* State
\* ------------------------------------------------------------------------
VARIABLES
  q,        \* self.queue
  wpc,      \* position of each download_worker task
  wjob,     \* (source, destination) held by each worker
  fs,       \* local files that exist (paths below settings.destination)
  ldirs,    \* local directories that exist
  wst,      \* position of the process_directory call of each remote directory
  wdst,     \* the destination argument of that call
  runpc,    \* position of run
  rootIdx,  \* index in target_dirs of the root run is walking
  client,   \* self.client: "none", "open" or "closed"
  puts,     \* per remote file: put_nowait calls made for it
  attempts, \* per remote file: download_file calls made for it
  dones,    \* per remote file: task_done calls made for its job
  outcome,  \* per remote file: how its transfer ended
  created,  \* per remote file: its transfer created the local file
  fs0,      \* the local files that existed when run started
  skipped,  \* destinations the walker found existing and did not queue
  f_item,   \* filter check: the listed item handed to item_filtered
  f_filters,\* filter check: the filter settings in force
  f_out,    \* filter check: what item_filtered returned: "True", "False",
            \* or "unset" before the call
  images,               \* PhotoFrame.images: the image paths, in list order
  current_image_index,  \* PhotoFrame.current_image_index (0-based)
  next_image_index,     \* PhotoFrame.next_image_index (0-based)
  current_image,        \* the image whose surface is displayed, or "None"
  next_image_surface,   \* the image whose surface was loaded for the
                        \* transition, or "None"
  is_transitioning,     \* PhotoFrame.is_transitioning
  paused,               \* PhotoFrame.paused
  history,              \* PhotoFrame.history: a deque of image paths
  slideshow_mode,       \* settings.slideshow_mode
  polled,               \* handle_events has read file changes in this frame
  raised,               \* the exception that left PhotoFrame.run, or "none"
  images_stable         \* the image list is as it was when the surface of the
                        \* last transition was loaded

vars == <<q, wpc, wjob, fs, ldirs, wst, wdst, runpc, rootIdx, client,
          puts, attempts, dones, outcome, created, fs0, skipped,
          f_item, f_filters, f_out,
          images, current_image_index, next_image_index, current_image,
          next_image_surface, is_transitioning, paused, history,
          slideshow_mode, polled, raised, images_stable>>

\* the state of the stand-alone filter check
filterVars == <<f_item, f_filters, f_out>>

\* the state of the photo frame
photoVars == <<images, current_image_index, next_image_index, current_image,
               next_image_surface, is_transitioning, paused, history,
               slideshow_mode, polled, raised, images_stable>>

\* the state of the downloader
runVars == <<q, wpc, wjob, fs, ldirs, wst, wdst, runpc, rootIdx, client,
             puts, attempts, dones, outcome, created, fs0, skipped>>

NoJob == [source |-> << >>, destination |-> << >>]

\* local files a run can create
LocalFiles == { << <<"a">> >>, << <<"s">>, <<"B">> >> }

\* the state after NextcloudDownloader.__init__, before run() starts; the
\* local mirror may already hold files of an earlier run
RunInit ==
  /\ q = EmptyQueue
  /\ wpc = [w \in Workers |-> "none"]
  /\ wjob = [w \in Workers |-> NoJob]
  /\ fs \in SUBSET LocalFiles
  /\ ldirs = {settings_destination}
  /\ wst = [d \in RemoteDirs |-> "none"]
  /\ wdst = [d \in RemoteDirs |-> << >>]
  /\ runpc = "init"
  /\ rootIdx = 0
  /\ client = "none"
  /\ puts = [s \in RemoteFiles |-> 0]
  /\ attempts = [s \in RemoteFiles |-> 0]
  /\ dones = [s \in RemoteFiles |-> 0]
  /\ outcome = [s \in RemoteFiles |-> "none"]
  /\ created = [s \in RemoteFiles |-> FALSE]
  /\ fs0 = fs
  /\ skipped = {}

\* the filter check is idle during a run
FilterIdle ==
  /\ f_item = [path |-> << >>, isdir |-> FALSE]
  /\ f_filters = filters
  /\ f_out = "unset"

\* the photo frame is a separate program: it is not running during a run
PhotoIdle ==
  /\ images = << >>
  /\ current_image_index = 0
  /\ next_image_index = 0
  /\ current_image = "None"
  /\ next_image_surface = "None"
  /\ is_transitioning = FALSE
  /\ paused = FALSE
  /\ history = << >>
  /\ slideshow_mode = "RANDOM"
  /\ polled = FALSE
  /\ raised = "not running"
  /\ images_stable = TRUE

Init == RunInit /\ FilterIdle /\ PhotoIdle

\* ------------------------------------------------------------------------
\* run and process_directory
\* ------------------------------------------------------------------------

\* the items of a listing that pass the filter, in listing order
KeptItems(source) ==
  SelectSeq(ClientList(source), LAMBDA it : item_filtered(it, it.path))

\* work_items: the kept sub-directories, one child traversal each
work_items(source) == SelectSeq(KeptItems(source), LAMBDA it : it.isdir)

\* every item placed directly in the mirror root, whatever its directory
child_destination_flat(destination, item_path) == <<PathName(item_path)>>

\* Path(destination, item_path.name)
ChildDestination(destination, item_path) == Append(destination, PathName(item_path))

\* every kept file is queued, whether or not its destination exists
NewJobsUnconditional(source, destination, files) ==
  LET kept == SelectSeq(KeptItems(source), LAMBDA it : ~it.isdir)
  IN  [i \in 1..Len(kept) |->
         [source |-> kept[i].path,
          destination |-> ChildDestination(destination, kept[i].path)]]

\* the jobs one listing puts on the queue: kept files whose destination does
\* not exist yet
NewJobs(source, destination, files) ==
  LET kept == SelectSeq(KeptItems(source),
                        LAMBDA it : /\ ~it.isdir
                                    /\ ChildDestination(destination, it.path) \notin files)
  IN  [i \in 1..Len(kept) |->
         [source |-> kept[i].path,
          destination |-> ChildDestination(destination, kept[i].path)]]

\* the destinations one listing finds existing ("File exists"): kept files
\* for which nothing is queued
ExistingDestinations(source, destination, files) ==
  {ChildDestination(destination, it.path) :
     it \in {x \in Range(KeptItems(source)) :
               ~x.isdir /\ ChildDestination(destination, x.path) \in files}}

\* a traversal that returns without waiting for the children it launched
gather_not_awaited(children) == FALSE

\* await asyncio.gather(*work_items): suspends iff a child was launched
gather_waits(children) == children # << >>

\* a process_directory call that has returned (logger.catch turns a raised
\* error into a normal return)
Returned(d) == wst[d] \in {"done", "failed"}

\* run resumes after `await self.process_directory(...)` of the current
\* root: the next root is entered up to its list call, or, after the last
\* root, join() is awaited and, if it does not suspend, shutdown() and
\* client.close() are called.  qq, st, dst: the queue, the traversal
\* positions and their destinations as the returning call leaves them.
AfterRoot(qq, st, dst) ==
  IF rootIdx < Len(target_dirs)
    THEN /\ rootIdx' = rootIdx + 1
         /\ wst' = [st EXCEPT ![target_dirs[rootIdx + 1]] = "listing"]
         /\ wdst' = [dst EXCEPT ![target_dirs[rootIdx + 1]] = settings_destination]
         /\ ldirs' = ldirs \cup {settings_destination}
         /\ q' = qq
         /\ UNCHANGED <<runpc, client>>
    ELSE /\ wst' = st
         /\ wdst' = dst
         /\ UNCHANGED <<rootIdx, ldirs>>
         /\ IF join_waits(qq)
              THEN /\ q' = [qq EXCEPT !.jwait = TRUE]
                   /\ runpc' = "join_wait"
                   /\ UNCHANGED client
              ELSE /\ q' = shutdown(qq)
                   /\ runpc' = "closing"
                   /\ client' = "closed"

\* run, up to its first suspension: the worker tasks are created, the
\* client is built, and the first root is entered up to its list call
RunStart ==
  /\ runpc = "init"
  /\ runpc' = "walking"
  /\ wpc' = [w \in Workers |-> "created"]
  /\ client' = "open"
  /\ rootIdx' = 1
  /\ wst' = [wst EXCEPT ![target_dirs[1]] = "listing"]
  /\ wdst' = [wdst EXCEPT ![target_dirs[1]] = settings_destination]
  /\ ldirs' = ldirs \cup {settings_destination}
  /\ UNCHANGED <<q, wjob, fs, puts, attempts, dones, outcome, created>>
  /\ UNCHANGED <<fs0, skipped, filterVars, photoVars>>

\* a child traversal task starts: destination.exists()/mkdir(), then it
\* suspends in client.list
ProcessDirectoryStart(d) ==
  /\ wst[d] = "created"
  /\ wst' = [wst EXCEPT ![d] = "listing"]
  /\ ldirs' = ldirs \cup {wdst[d]}
  /\ UNCHANGED <<q, wpc, wjob, fs, wdst, runpc, rootIdx, client,
                 puts, attempts, dones, outcome, created>>
  /\ UNCHANGED <<fs0, skipped, filterVars, photoVars>>

\* the worker tasks created by run are ready from run's first suspension
\* on, and the event loop runs a ready task before it delivers the result
\* of any I/O started later: every worker has made its first get() call
\* before a listing returns
WorkersStarted == \A w \in Workers : wpc[w] # "created"

\* client.list returns: every item is filtered, files are queued, the
\* children are launched and awaited; with no child the call returns at once
ProcessDirectoryList(d) ==
  /\ wst[d] = "listing"
  /\ WorkersStarted
  /\ LET jobs == NewJobs(d, wdst[d], fs)
         children == work_items(d)
         IsChild(x) == \E i \in DOMAIN children : children[i].path = x
         q1 == PutAll(q, jobs)
         dst == [x \in RemoteDirs |->
                   IF IsChild(x) THEN ChildDestination(wdst[d], x) ELSE wdst[x]]
         st(mine) == [x \in RemoteDirs |->
                        IF x = d THEN mine
                        ELSE IF IsChild(x) THEN "created" ELSE wst[x]]
     IN  /\ puts' = [s \in RemoteFiles |->
                       puts[s] + Cardinality({i \in DOMAIN jobs : jobs[i].source = s})]
         /\ IF gather_waits(children)
              THEN /\ wst' = st("gathering")
                   /\ wdst' = dst
                   /\ q' = q1
                   /\ UNCHANGED <<ldirs, runpc, rootIdx, client>>
              ELSE IF d \in RootDirs
                     THEN AfterRoot(q1, st("done"), dst)
                     ELSE /\ wst' = st("done")
                          /\ wdst' = dst
                          /\ q' = q1
                          /\ UNCHANGED <<ldirs, runpc, rootIdx, client>>
  /\ skipped' = skipped \cup ExistingDestinations(d, wdst[d], fs)
  /\ UNCHANGED <<wpc, wjob, fs, attempts, dones, outcome, created>>
  /\ UNCHANGED <<fs0, filterVars, photoVars>>

\* client.list raises: logger.catch absorbs the error and the call returns
\* with nothing queued and no child launched
ProcessDirectoryListFails(d) ==
  /\ wst[d] = "listing"
  /\ WorkersStarted
  /\ IF d \in RootDirs
       THEN AfterRoot(q, [wst EXCEPT ![d] = "failed"], wdst)
       ELSE /\ wst' = [wst EXCEPT ![d] = "failed"]
            /\ UNCHANGED <<q, wdst, ldirs, runpc, rootIdx, client>>
  /\ UNCHANGED <<wpc, wjob, fs, puts, attempts, dones, outcome, created>>
  /\ UNCHANGED <<fs0, skipped, filterVars, photoVars>>

\* a gather that resolves as soon as every child has started
children_started(d) ==
  \A i \in DOMAIN work_items(d) : wst[work_items(d)[i].path] # "created"

\* the future of asyncio.gather(*work_items) is resolved: every child
\* traversal has returned
children_returned(d) ==
  \A i \in DOMAIN work_items(d) : Returned(work_items(d)[i].path)

\* gather resolves once every child has returned, and process_directory
\* returns
ProcessDirectoryGathered(d) ==
  /\ wst[d] = "gathering"
  /\ children_returned(d)
  /\ IF d \in RootDirs
       THEN AfterRoot(q, [wst EXCEPT ![d] = "done"], wdst)
       ELSE /\ wst' = [wst EXCEPT ![d] = "done"]
            /\ UNCHANGED <<q, wdst, ldirs, runpc, rootIdx, client>>
  /\ UNCHANGED <<wpc, wjob, fs, puts, attempts, dones, outcome, created>>
  /\ UNCHANGED <<fs0, skipped, filterVars, photoVars>>

\* join() is resumed by the task_done that brought the count to zero; run
\* calls shutdown() and client.close() without suspending in between
RunJoinReturns ==
  /\ runpc = "join_wait"
  /\ q.jwoken
  /\ q' = shutdown([q EXCEPT !.jwoken = FALSE])
  /\ runpc' = "closing"
  /\ client' = "closed"
  /\ UNCHANGED <<wpc, wjob, fs, ldirs, wst, wdst, rootIdx,
                 puts, attempts, dones, outcome, created>>
  /\ UNCHANGED <<fs0, skipped, filterVars, photoVars>>

\* client.close() completes and run returns
RunCloseReturns ==
  /\ runpc = "closing"
  /\ runpc' = "done"
  /\ UNCHANGED <<q, wpc, wjob, fs, ldirs, wst, wdst, rootIdx, client,
                 puts, attempts, dones, outcome, created>>
  /\ UNCHANGED <<fs0, skipped, filterVars, photoVars>>

\* ------------------------------------------------------------------------
\* download_worker
\* ------------------------------------------------------------------------

\* `source, destination = await self.queue.get()` followed, without a
\* suspension in between, by the call of download_file: with a job
\* buffered the worker takes it and starts the transfer; on an empty queue
\* after shutdown() get raises QueueShutDown and the worker returns;
\* otherwise the worker suspends as a getter.  qq: the queue as the
\* worker's preceding calls leave it.
Get(w, qq) ==
  IF qq.items # << >>
    THEN /\ q' = get_nowait(qq)
         /\ wjob' = [wjob EXCEPT ![w] = Head(qq.items)]
         /\ wpc' = [wpc EXCEPT ![w] = "downloading"]
         /\ attempts' = [attempts EXCEPT ![Head(qq.items).source] = @ + 1]
    ELSE IF qq.shutdown
           THEN /\ q' = qq
                /\ wpc' = [wpc EXCEPT ![w] = "exited"]
                /\ UNCHANGED <<wjob, attempts>>
           ELSE /\ q' = [qq EXCEPT !.getters = Append(@, w)]
                /\ wpc' = [wpc EXCEPT ![w] = "blocked"]
                /\ UNCHANGED <<wjob, attempts>>

\* a failure handler that puts the failed job back on the queue
requeue_failed(qq, job) == task_done(put_nowait(qq, job))

\* the queue bookkeeping of the WebDavException handler once the cleanup
\* has succeeded: self.queue.task_done() and nothing else
transfer_failed_done(qq, job) == task_done(qq)

\* a worker task runs for the first time and calls get()
WorkerStart(w) ==
  /\ wpc[w] = "created"
  /\ Get(w, q)
  /\ UNCHANGED <<fs, ldirs, wst, wdst, runpc, rootIdx, client,
                 puts, dones, outcome, created>>
  /\ UNCHANGED <<fs0, skipped, filterVars, photoVars>>

\* a worker suspended in get() is resumed after a wake-up and re-checks
\* the queue
WorkerResume(w) ==
  /\ wpc[w] = "blocked"
  /\ w \in q.woken
  /\ Get(w, [q EXCEPT !.woken = @ \ {w}])
  /\ UNCHANGED <<fs, ldirs, wst, wdst, runpc, rootIdx, client,
                 puts, dones, outcome, created>>
  /\ UNCHANGED <<fs0, skipped, filterVars, photoVars>>

\* download_file opens the local file for writing: the (partial) file
\* exists from now on
DownloadCreatesFile(w) ==
  /\ wpc[w] = "downloading"
  /\ wpc' = [wpc EXCEPT ![w] = "writing"]
  /\ fs' = fs \cup {wjob[w].destination}
  /\ created' = [created EXCEPT ![wjob[w].source] = TRUE]
  /\ UNCHANGED <<q, wjob, ldirs, wst, wdst, runpc, rootIdx, client,
                 puts, attempts, dones, outcome>>
  /\ UNCHANGED <<fs0, skipped, filterVars, photoVars>>

\* download_file returns: the job is marked done and the worker calls
\* get() again
DownloadSucceeds(w) ==
  /\ wpc[w] = "writing"
  /\ outcome' = [outcome EXCEPT ![wjob[w].source] = "success"]
  /\ dones' = [dones EXCEPT ![wjob[w].source] = @ + 1]
  /\ Get(w, task_done(q))
  /\ UNCHANGED <<fs, ldirs, wst, wdst, runpc, rootIdx, client, puts, created>>
  /\ UNCHANGED <<fs0, skipped, filterVars, photoVars>>

\* download_file raises a WebDavException, before or after it created the
\* local file.  destination is a non-empty string, so the handler calls
\* Path(destination).unlink(): with a file at the destination it is
\* removed, the job is marked done and the worker calls get() again;
\* with none, unlink raises FileNotFoundError, which leaves the loop and
\* is absorbed by logger.catch: the worker task ends
DownloadTransferFails(w) ==
  /\ wpc[w] \in {"downloading", "writing"}
  /\ outcome' = [outcome EXCEPT ![wjob[w].source] = "transfer_failed"]
  /\ IF wjob[w].destination \in fs
       THEN /\ fs' = fs \ {wjob[w].destination}
            /\ dones' = [dones EXCEPT ![wjob[w].source] = @ + 1]
            /\ Get(w, transfer_failed_done(q, wjob[w]))
       ELSE /\ wpc' = [wpc EXCEPT ![w] = "crashed"]
            /\ UNCHANGED <<q, wjob, fs, dones, attempts>>
  /\ UNCHANGED <<ldirs, wst, wdst, runpc, rootIdx, client, puts, created>>
  /\ UNCHANGED <<fs0, skipped, filterVars, photoVars>>

\* download_file raises an error that is not a WebDavException: no handler
\* of the loop matches, logger.catch absorbs it and the worker task ends
DownloadRaisesOther(w) ==
  /\ wpc[w] \in {"downloading", "writing"}
  /\ outcome' = [outcome EXCEPT ![wjob[w].source] = "error"]
  /\ wpc' = [wpc EXCEPT ![w] = "crashed"]
  /\ UNCHANGED <<q, wjob, fs, ldirs, wst, wdst, runpc, rootIdx, client,
                 puts, attempts, dones, created>>
  /\ UNCHANGED <<fs0, skipped, filterVars, photoVars>>

\* ------------------------------------------------------------------------
\* Specification
\* ------------------------------------------------------------------------
Next ==
  \/ RunStart
  \/ \E d \in RemoteDirs : ProcessDirectoryStart(d)
  \/ \E d \in RemoteDirs : ProcessDirectoryList(d)
  \/ \E d \in RemoteDirs : ProcessDirectoryListFails(d)
  \/ \E d \in RemoteDirs : ProcessDirectoryGathered(d)
  \/ RunJoinReturns
  \/ RunCloseReturns
  \/ \E w \in Workers : WorkerStart(w)
  \/ \E w \in Workers : WorkerResume(w)
  \/ \E w \in Workers : DownloadCreatesFile(w)
  \/ \E w \in Workers : DownloadSucceeds(w)
  \/ \E w \in Workers : DownloadTransferFails(w)
  \/ \E w \in Workers : DownloadRaisesOther(w)

Spec == Init /\ [][Next]_vars

\* the event loop runs every task that is ready: a created or woken worker,
\* a created traversal, a resolved gather, a woken join
FairSpec ==
  /\ Spec
  /\ \A w \in Workers : WF_vars(WorkerStart(w)) /\ WF_vars(WorkerResume(w))
  /\ \A d \in RemoteDirs : WF_vars(ProcessDirectoryStart(d)) /\ WF_vars(ProcessDirectoryGathered(d))
  /\ WF_vars(RunJoinReturns)

\* ------------------------------------------------------------------------
\* item_filtered on its own: every item and every filter setting within
\* the bounds below
\* ------------------------------------------------------------------------

\* longest item name tried
MaxNameLen == 2

FilterAlphabet == {"a", "b", "B"}

\* the item names tried: every string over the alphabet up to MaxNameLen
FilterNames == UNION {[1..k -> FilterAlphabet] : k \in 0..MaxNameLen}

\* the entries a filter list of the configuration file may hold
FilterEntries == {<<"a">>, <<"B">>, <<"a", "B">>}

\* settings as FilterSettings validates them: each list lower-cased
FilterSettingsTried ==
  {[ignore_files |-> lowercase_list(f),
    ignore_files_contains |-> lowercase_list(c),
    ignore_folders |-> lowercase_list(d)] :
     f \in SUBSET FilterEntries, c \in SUBSET FilterEntries, d \in SUBSET FilterEntries}

FilterInit ==
  /\ RunInit
  /\ fs = {}
  /\ f_item \in [path : {<< <<"p">>, n >> : n \in FilterNames}, isdir : BOOLEAN]
  /\ f_filters \in FilterSettingsTried
  /\ f_out = "unset"
  /\ PhotoIdle

\* self.item_filtered(item, item_path) is called on the item
FilterApply ==
  /\ f_out = "unset"
  /\ f_item.path # << >>
  /\ f_out' = IF item_filtered_with(f_filters, f_item, f_item.path)
                THEN "True" ELSE "False"
  /\ UNCHANGED <<f_item, f_filters, runVars, photoVars>>

FilterNext == FilterApply

FilterSpec == FilterInit /\ [][FilterNext]_vars

\* ------------------------------------------------------------------------
\* The photo frame (src/main.py): one main-loop frame is handle_events
\* (input events, then the file changes the watcher reports) followed by
\* update
\* ------------------------------------------------------------------------

\* how many image files the watched directory can hold
MaxImages == 2

\* the length the history deque is created with, scaled down
HistoryMaxLen == 2

ImageNames == <<"A.jpg", "B.jpg", "C.jpg", "D.jpg", "E.jpg">>

\* the image files that can be in the watched directory
PhotoFiles == {ImageNames[i] : i \in 1..MaxImages}

\* the argument of load_current_image when it is left out
PyNone == -1

\* the orders random.shuffle can leave a list in
shuffle(imgs) ==
  {p \in [1..Len(imgs) -> Range(imgs)] : \A i, j \in 1..Len(imgs) : p[i] = p[j] => i = j}

\* the lists load_images can build: the image files found, in any order
load_images ==
  {p \in UNION {[1..k -> PhotoFiles] : k \in 0..MaxImages} :
     \A i, j \in 1..Len(p) : p[i] = p[j] => i = j}

\* deque.append on a deque with maxlen
history_append(h, x) == IF Len(h) >= HistoryMaxLen THEN Append(Tail(h), x) ELSE Append(h, x)

\* list.index, 0-based
list_index(imgs, x) == (CHOOSE i \in 1..Len(imgs) : imgs[i] = x /\ \A j \in 1..(i - 1) : imgs[j] # x) - 1

\* list.remove: the list without the first occurrence of x
list_remove(imgs, x) ==
  LET i == list_index(imgs, x) + 1
  IN SubSeq(imgs, 1, i - 1) \o SubSeq(imgs, i + 1, Len(imgs))

\* load_current_image(idx) on a non-empty list: the surface it returns and
\* the value it leaves in current_image_index. The index read is
\* `idx or self.current_image_index`; an IndexError resets
\* current_image_index to 0 and loads again
load_current_image(imgs, cur, idx) ==
  LET k == IF idx = PyNone \/ idx = 0 THEN cur ELSE idx
  IN IF k < Len(imgs)
       THEN [surface |-> imgs[k + 1], index |-> cur]
       ELSE [surface |-> imgs[1], index |-> 0]

\* the photo frame is in its main loop
Running == raised = "none"

\* the state after PhotoFrame.__init__
PhotoInit ==
  /\ RunInit
  /\ fs = {}
  /\ FilterIdle
  /\ images \in load_images
  /\ current_image_index = 0
  /\ next_image_index = 0
  /\ current_image = IF images # << >>
                       THEN load_current_image(images, 0, PyNone).surface
                       ELSE "None"
  /\ next_image_surface = "None"
  /\ is_transitioning = FALSE
  /\ paused = FALSE
  /\ history = << >>
  /\ slideshow_mode \in {"RANDOM", "SEQUENTIAL"}
  /\ polled = FALSE
  /\ raised = "none"
  /\ images_stable = TRUE

\* start_transition_to(index) on the list imgs
start_transition_to(imgs, index) ==
  IF index = current_image_index \/ imgs = << >>
    THEN /\ UNCHANGED <<current_image_index, next_image_index, next_image_surface, is_transitioning>>
         /\ images_stable' = (images_stable /\ imgs = images)
    ELSE LET loaded == load_current_image(imgs, current_image_index, index)
         IN /\ next_image_index' = index
            /\ next_image_surface' = loaded.surface
            /\ current_image_index' = loaded.index
            /\ is_transitioning' = TRUE
            /\ images_stable' = TRUE

\* self.images[self.current_image_index] in next_image raises IndexError
next_image_raises == current_image_index >= Len(images)

\* next_image(): the history entry is read from the list before the list
\* is tested for emptiness
next_image ==
  IF next_image_raises
    THEN UNCHANGED <<images, history, current_image_index, next_image_index,
                     next_image_surface, is_transitioning, images_stable>>
    ELSE /\ history' = history_append(history, images[current_image_index + 1])
         /\ IF slideshow_mode = "RANDOM"
              THEN IF current_image_index + 1 >= Len(images)
                     THEN \E shuffled \in shuffle(images) :
                            /\ images' = shuffled
                            /\ start_transition_to(shuffled, 0)
                     ELSE /\ images' = images
                          /\ start_transition_to(images, current_image_index + 1)
              ELSE /\ images' = images
                   /\ start_transition_to(images, (current_image_index + 1) % Len(images))

\* K_RIGHT, K_DOWN or a click on the right third
KeyNextImage ==
  /\ Running /\ ~polled
  /\ next_image
  /\ raised' = IF next_image_raises THEN "IndexError in next_image" ELSE raised
  /\ UNCHANGED <<current_image, paused, slideshow_mode, polled>>
  /\ UNCHANGED <<runVars, filterVars>>

\* K_LEFT, K_UP or a click on the left third: previous_image()
KeyPreviousImage ==
  /\ Running /\ ~polled
  /\ IF images = << >>
       THEN UNCHANGED <<history, raised, current_image_index, next_image_index,
                        next_image_surface, is_transitioning, images_stable>>
       ELSE IF Len(history) > 0
         THEN LET last == history[Len(history)]
              IN /\ history' = SubSeq(history, 1, Len(history) - 1)
                 /\ IF last \in Range(images)
                      THEN /\ raised' = raised
                           /\ start_transition_to(images, list_index(images, last))
                      ELSE /\ raised' = "ValueError in previous_image"
                           /\ UNCHANGED <<current_image_index, next_image_index,
                                          next_image_surface, is_transitioning, images_stable>>
         ELSE UNCHANGED <<history, raised, current_image_index, next_image_index,
                          next_image_surface, is_transitioning, images_stable>>
  /\ UNCHANGED <<images, current_image, paused, slideshow_mode, polled>>
  /\ UNCHANGED <<runVars, filterVars>>

\* K_r: random_image()
KeyRandomImage ==
  /\ Running /\ ~polled
  /\ IF Len(images) <= 1
       THEN UNCHANGED <<current_image_index, next_image_index, next_image_surface,
                        is_transitioning, images_stable>>
       ELSE \E next_index \in 0..(Len(images) - 1) :
              /\ next_index # current_image_index
              /\ start_transition_to(images, next_index)
  /\ UNCHANGED <<images, history, raised, current_image, paused, slideshow_mode, polled>>
  /\ UNCHANGED <<runVars, filterVars>>

\* K_SPACE or a click on the middle third: toggle_pause()
KeyTogglePause ==
  /\ Running /\ ~polled
  /\ paused' = ~paused
  /\ UNCHANGED <<images, current_image_index, next_image_index, current_image,
                 next_image_surface, is_transitioning, history, slideshow_mode,
                 polled, raised, images_stable>>
  /\ UNCHANGED <<runVars, filterVars>>

\* the watcher reports Change.added for an image file
WatcherAdded(f) ==
  /\ Running
  /\ f \notin Range(images)
  /\ images' = Append(images, f)
  /\ polled' = TRUE
  /\ images_stable' = FALSE
  /\ UNCHANGED <<current_image_index, next_image_index, current_image,
                 next_image_surface, is_transitioning, paused, history,
                 slideshow_mode, raised>>
  /\ UNCHANGED <<runVars, filterVars>>

\* the watcher reports Change.added for a directory or for a file whose
\* suffix is not in ALLOWED_EXTENSIONS
WatcherAddedOther ==
  /\ Running
  /\ polled' = TRUE
  /\ UNCHANGED <<images, current_image_index, next_image_index, current_image,
                 next_image_surface, is_transitioning, paused, history,
                 slideshow_mode, raised, images_stable>>
  /\ UNCHANGED <<runVars, filterVars>>

\* the watcher reports Change.deleted for a listed image
WatcherDeleted(f) ==
  /\ Running
  /\ f \in Range(images)
  /\ images' = list_remove(images, f)
  /\ polled' = TRUE
  /\ images_stable' = FALSE
  /\ UNCHANGED <<current_image_index, next_image_index, current_image,
                 next_image_surface, is_transitioning, paused, history,
                 slideshow_mode, raised>>
  /\ UNCHANGED <<runVars, filterVars>>

\* the watcher reports Change.deleted for a path that is not in the list:
\* list.remove raises ValueError
WatcherDeletedOther ==
  /\ Running
  /\ polled' = TRUE
  /\ raised' = "ValueError in handle_events"
  /\ UNCHANGED <<images, current_image_index, next_image_index, current_image,
                 next_image_surface, is_transitioning, paused, history,
                 slideshow_mode, images_stable>>
  /\ UNCHANGED <<runVars, filterVars>>

\* update() when the slideshow delay has passed: next_image(), then the
\* first blend of the transition it started or the plain draw
UpdateAutoNext ==
  /\ Running
  /\ ~paused /\ ~is_transitioning
  /\ next_image
  /\ raised' = IF next_image_raises THEN "IndexError in next_image"
               ELSE IF current_image # "None" THEN raised
               ELSE IF is_transitioning' THEN "AttributeError in update_transition"
               ELSE "TypeError in update"
  /\ polled' = FALSE
  /\ UNCHANGED <<current_image, paused, slideshow_mode>>
  /\ UNCHANGED <<runVars, filterVars>>

\* update() during a transition whose duration has passed:
\* update_transition() completes it
UpdateTransitionCompletes ==
  /\ Running
  /\ is_transitioning
  /\ current_image_index' = next_image_index
  /\ current_image' = next_image_surface
  /\ next_image_surface' = "None"
  /\ is_transitioning' = FALSE
  /\ polled' = FALSE
  /\ UNCHANGED <<images, next_image_index, paused, history, slideshow_mode,
                 raised, images_stable>>
  /\ UNCHANGED <<runVars, filterVars>>

\* update() during a transition whose duration has not passed:
\* update_transition() blends current_image and next_image_surface
UpdateTransitionBlends ==
  /\ Running
  /\ is_transitioning
  /\ raised' = IF current_image = "None"
                 THEN "AttributeError in update_transition" ELSE raised
  /\ polled' = FALSE
  /\ UNCHANGED <<images, current_image_index, next_image_index, current_image,
                 next_image_surface, is_transitioning, paused, history,
                 slideshow_mode, images_stable>>
  /\ UNCHANGED <<runVars, filterVars>>

\* update() outside a transition, the delay not passed or the slideshow
\* paused: draws current_image and, when paused, the name of
\* images[current_image_index]
UpdateDraw ==
  /\ Running
  /\ ~is_transitioning
  /\ raised' = IF current_image = "None" THEN "TypeError in update"
               ELSE IF paused /\ current_image_index >= Len(images)
                 THEN "IndexError in update"
               ELSE raised
  /\ polled' = FALSE
  /\ UNCHANGED <<images, current_image_index, next_image_index, current_image,
                 next_image_surface, is_transitioning, paused, history,
                 slideshow_mode, images_stable>>
  /\ UNCHANGED <<runVars, filterVars>>

PhotoNext ==
  \/ KeyNextImage
  \/ KeyPreviousImage
  \/ KeyRandomImage
  \/ KeyTogglePause
  \/ \E f \in PhotoFiles : WatcherAdded(f)
  \/ WatcherAddedOther
  \/ \E f \in PhotoFiles : WatcherDeleted(f)
  \/ WatcherDeletedOther
  \/ UpdateAutoNext
  \/ UpdateTransitionCompletes
  \/ UpdateTransitionBlends
  \/ UpdateDraw

PhotoSpec == PhotoInit /\ [][PhotoNext]_vars

TypeOK ==
  /\ wpc \in [Workers -> {"none", "created", "blocked", "downloading", "writing", "exited", "crashed"}]
  /\ wst \in [RemoteDirs -> {"none", "created", "listing", "gathering", "done", "failed"}]
  /\ runpc \in {"init", "walking", "join_wait", "closing", "done"}
  /\ client \in {"none", "open", "closed"}
  /\ q.unfinished >= 0
  /\ q.finished = (q.unfinished = 0)
  /\ fs \subseteq LocalFiles

\* ------------------------------------------------------------------------
\* Properties
\* ------------------------------------------------------------------------
Terminated(w) == wpc[w] \in {"exited", "crashed"}

\* download_file has been called for the job of s and has not ended
InFlight(s) == \E w \in Workers : wpc[w] \in {"downloading", "writing"} /\ wjob[w].source = s

Queued(s) == \E i \in DOMAIN q.items : q.items[i].source = s

\* run has reached `await self.queue.join()`
JoinEntered == runpc \in {"join_wait", "closing", "done"}

\* join() has returned, or its wait has been resolved
JoinResumed == runpc \in {"closing", "done"} \/ (runpc = "join_wait" /\ q.jwoken)

\* every job ever put on the queue has been marked done exactly once
AllPutDone == \A s \in RemoteFiles : puts[s] > 0 => dones[s] = 1

\* no process_directory call is between its start and its return
NoTraversalRunning ==
  /\ \A d \in RemoteDirs : wst[d] \in {"none", "done", "failed"}
  /\ \A d \in RootDirs : Returned(d)

\* nothing can happen any more
Quiescent == ~ENABLED Next

\* C1: every job a worker obtained from get() and is no longer working on
\* has had task_done called for it exactly once, whatever the outcome.
C1_TaskDoneOncePerJob ==
  \A s \in RemoteFiles : (attempts[s] > 0 /\ ~InFlight(s)) => dones[s] = 1

\* C2: once run awaits join(), join has returned (or been resumed) if and
\* only if every job ever put on the queue has been marked done exactly
\* once.
C2_JoinIffAllDone == JoinEntered => (JoinResumed <=> AllPutDone)

C2_Witness ==
  /\ runpc = "closing"
  /\ Cardinality({s \in RemoteFiles : puts[s] = 1 /\ dones[s] = 1}) >= 2

\* C3: join() is entered only after every traversal, nested ones included,
\* has returned, and from then on nothing is put on the queue.
C3_JoinAfterDiscovery ==
  [][/\ JoinEntered' => NoTraversalRunning'
     /\ JoinEntered => puts' = puts]_vars

C3_Witness ==
  /\ JoinEntered
  /\ wst[<< <<"p">>, <<"s">> >>] = "done"
  /\ puts[<< <<"p">>, <<"s">>, <<"B">> >>] = 1

\* C4: after shutdown() no worker is left suspended in get() without a
\* wake-up, and every worker that was blocked in get() leaves its loop
\* through QueueShutDown.
C4_ShutdownUnblocksAll ==
  /\ [](q.shutdown => \A w \in Workers : wpc[w] = "blocked" => w \in q.woken)
  /\ \A w \in Workers : (q.shutdown /\ wpc[w] = "blocked") ~> (wpc[w] = "exited")

C4_Witness ==
  /\ q.shutdown
  /\ q.getters = << >>
  /\ \A w \in Workers : wpc[w] = "blocked" /\ w \in q.woken

\* C5: when client.close() has been called, every worker task has exited.
C5_CloseAfterWorkersExit ==
  client = "closed" => \A w \in Workers : Terminated(w)

\* C6: a worker task has ended only by observing the shutdown, and only
\* when nothing is queued or in flight and discovery has finished.
C6_WorkerExitsOnlyOnShutdown ==
  \A w \in Workers :
    Terminated(w) =>
      /\ wpc[w] = "exited"
      /\ q.shutdown
      /\ q.items = << >>
      /\ \A s \in RemoteFiles : ~InFlight(s)
      /\ NoTraversalRunning

\* C7: when a transfer that had created its local file fails with a
\* WebDavException, then after the worker's handling of it the file is
\* absent, the job is marked done and the worker is back at get().
C7_PartialFileRemoved ==
  [][\A w \in Workers :
       (/\ wpc[w] = "writing"
        /\ outcome[wjob[w].source] = "none"
        /\ outcome'[wjob[w].source] = "transfer_failed")
       => /\ wjob[w].destination \notin fs'
          /\ dones'[wjob[w].source] = 1
          /\ wpc'[w] \in {"blocked", "downloading", "exited"}]_vars

\* C8: a job whose transfer failed with a WebDavException is marked done
\* and its worker goes on, whether or not there was a file to delete.
C8_CleanupBestEffort ==
  \A s \in RemoteFiles :
    outcome[s] = "transfer_failed" =>
      /\ dones[s] = 1
      /\ \A w \in Workers : wjob[w].source = s => wpc[w] # "crashed"

\* C9: when download_file has raised an error that is not a
\* WebDavException, the run does not end up blocked: once nothing can
\* happen any more, run has terminated.
C9_OtherErrorTerminatesRun ==
  (Quiescent /\ \E s \in RemoteFiles : outcome[s] = "error") => runpc = "done"

\* C10: every job is put at most once and attempted at most once; a job
\* whose transfer failed is neither queued nor in flight again.
C10_FailedJobNotRetried ==
  \A s \in RemoteFiles :
    /\ puts[s] <= 1
    /\ attempts[s] <= 1
    /\ outcome[s] = "transfer_failed" => (~Queued(s) /\ ~InFlight(s))

C10_Witness ==
  /\ runpc = "done"
  /\ \E s \in RemoteFiles :
       outcome[s] = "transfer_failed" /\ attempts[s] = 1 /\ dones[s] = 1

\* the worker holds the job of s: download_file is running for it
Holding(w, s) == wpc[w] \in {"downloading", "writing"} /\ wjob[w].source = s

\* the path of a remote item below its configured root
RelativePath(s) == SubSeq(s, 2, Len(s))

\* the remote directory that lists the item
Parent(d) == SubSeq(d, 1, Len(d) - 1)

\* d is a proper ancestor of c
IsBelow(c, d) == Len(c) > Len(d) /\ SubSeq(c, 1, Len(d)) = d

\* sub occurs somewhere in name
Occurs(sub, name) ==
  \E i \in 1..(Len(name) + 1), j \in 0..Len(name) : SubSeq(name, i, j) = sub

\* the reference predicate shouldKeep of the design, for a rule set
shouldKeep(item, rules) ==
  IF item.isdir
    THEN ~(lower(PathName(item.path)) \in rules.ignore_folders)
    ELSE ~(\/ lower(PathName(item.path)) \in rules.ignore_files
           \/ \E sub \in rules.ignore_files_contains :
                Occurs(sub, lower(PathName(item.path))))

\* the remote files that pass the file rules and lie under no excluded
\* directory, at their paths relative to the root
ExpectedMirror ==
  {RelativePath(f) :
     f \in {x \in RemoteFiles :
              /\ shouldKeep([path |-> x, isdir |-> FALSE], filters)
              /\ \A k \in 2..(Len(x) - 1) :
                   shouldKeep([path |-> SubSeq(x, 1, k), isdir |-> TRUE], filters)}}

\* every listing returned and every transfer so far succeeded
AllSucceeded ==
  /\ \A d \in RemoteDirs : wst[d] # "failed"
  /\ \A s \in RemoteFiles : outcome[s] \in {"none", "success"}

\* the jobs that are queued or being transferred
LiveJobs ==
  Range(q.items) \cup {wjob[w] : w \in {x \in Workers : wpc[x] \in {"downloading", "writing"}}}

\* C11: no job is held by two workers or delivered twice, and when join()
\* has returned every job that was put has been delivered to a worker.
C11_DeliveredExactlyOnce ==
  /\ \A s \in RemoteFiles : Cardinality({w \in Workers : Holding(w, s)}) <= 1
  /\ \A s \in RemoteFiles : attempts[s] <= puts[s]
  /\ JoinResumed => \A s \in RemoteFiles : attempts[s] = puts[s]

C11_Witness ==
  /\ runpc = "done"
  /\ \A w \in Workers : wpc[w] = "exited" /\ wjob[w] # NoJob
  /\ \A v, w \in Workers : v # w => wjob[v].source # wjob[w].source

\* C12: at most N = settings.webdav.workers transfers are in progress at
\* any moment.
C12_AtMostNTransfers ==
  Cardinality({s \in RemoteFiles : InFlight(s)}) <= NumWorkers

C12_Witness ==
  /\ Cardinality({s \in RemoteFiles : InFlight(s)}) = NumWorkers
  /\ q.items # << >>

\* C13: after a run that started with none of the remote files in the
\* mirror and in which every listing and every transfer succeeded, once
\* run has returned and nothing is left to happen, the mirror holds exactly
\* the kept files at their relative paths, the queue is empty and every
\* worker has exited.
C13_MirrorComplete ==
  (/\ runpc = "done"
   /\ Quiescent
   /\ fs0 = {}
   /\ AllSucceeded)
  => /\ fs = ExpectedMirror
     /\ q.items = << >>
     /\ q.unfinished = 0
     /\ \A w \in Workers : wpc[w] = "exited"

C13_Witness ==
  /\ runpc = "done"
  /\ Quiescent
  /\ fs0 = {}
  /\ AllSucceeded
  /\ fs = { << <<"a">> >>, << <<"s">>, <<"B">> >> }
  /\ \A s \in RemoteFiles : attempts[s] = 1 <=> outcome[s] = "success"
  /\ Cardinality({s \in RemoteFiles : outcome[s] = "success"}) >= 2

\* C14: a walk over a mirror in which every destination already exists
\* puts no job on the queue.
C14_SecondWalkQueuesNothing ==
  ExpectedMirror \subseteq fs0 => \A s \in RemoteFiles : puts[s] = 0

C14_Witness ==
  /\ ExpectedMirror \subseteq fs0
  /\ runpc = "done"
  /\ \A d \in RootDirs : wst[d] = "done"
  /\ wst[<< <<"p">>, <<"s">>, <<"u">> >>] = "done"
  /\ skipped = ExpectedMirror

\* C15: item_filtered returns what the reference shouldKeep returns, for
\* every item and every rule set.
C15_FilterMatchesReference ==
  f_out # "unset" =>
    f_out = (IF shouldKeep(f_item, f_filters) THEN "True" ELSE "False")

C15_Witness ==
  /\ f_out = "False"
  /\ ~f_item.isdir
  /\ lower(PathName(f_item.path)) # PathName(f_item.path)
  /\ lower(PathName(f_item.path)) \notin f_filters.ignore_files
  /\ PathName(f_item.path) \notin f_filters.ignore_files_contains

\* C16: a failed listing is not absorbed by process_directory: the
\* traversal of the parent does not return normally (for a root: run does
\* not go on), and nothing below the failed directory is queued.
C16_ListFailurePropagates ==
  \A d \in RemoteDirs :
    wst[d] = "failed" =>
      /\ \A s \in RemoteFiles : IsBelow(s, d) => puts[s] = 0
      /\ d \notin RootDirs => wst[Parent(d)] # "done"
      /\ d \in RootDirs => (runpc = "walking" /\ target_dirs[rootIdx] = d)

\* C17: when process_directory(d) has returned, no traversal of a
\* descendant of d is still running.
C17_ReturnsAfterDescendants ==
  \A d \in RemoteDirs :
    Returned(d) =>
      \A c \in RemoteDirs : IsBelow(c, d) => wst[c] \in {"none", "done", "failed"}

C17_Witness ==
  /\ wst[<< <<"p">> >>] = "done"
  /\ wst[<< <<"p">>, <<"s">> >>] = "done"
  /\ wst[<< <<"p">>, <<"s">>, <<"u">> >>] = "done"
  /\ runpc = "walking"

\* C18: a file the walker found existing at its destination stays in
\* place, and no job for that destination is queued or being transferred.
C18_ExistingFileUntouched ==
  \A d \in skipped :
    /\ d \in fs
    /\ \A j \in LiveJobs : j.destination # d

\* C19: when every listing returned and no transfer ended with an error
\* other than a WebDavException, then once nothing is left to happen run
\* has completed: the queue is shut down, every worker has exited and the
\* client is closed.
C19_RunCompletes ==
  (/\ Quiescent
   /\ \A d \in RemoteDirs : wst[d] # "failed"
   /\ \A s \in RemoteFiles : outcome[s] # "error")
  => /\ runpc = "done"
     /\ q.shutdown
     /\ client = "closed"
     /\ \A w \in Workers : wpc[w] = "exited"

\* C20: no two jobs that are queued or in flight have the same local
\* destination, and the file of a successfully completed transfer stays in
\* place.
C20_NoSharedDestination ==
  /\ \A j1, j2 \in LiveJobs : j1.destination = j2.destination => j1.source = j2.source
  /\ \A s \in RemoteFiles : outcome[s] = "success" => RelativePath(s) \in fs

\* C21: a transition started while the image list is unchanged loads the
\* surface of the image at its target index, for every target index and
\* index 0 too: during the transition next_image_surface is the image at
\* images[next_image_index], and outside a transition the displayed
\* current_image is the image at images[current_image_index].
C21_TransitionShowsTarget ==
  (Running /\ images_stable /\ images # << >>)
  => IF is_transitioning
       THEN /\ next_image_index < Len(images)
            /\ next_image_surface = images[next_image_index + 1]
       ELSE /\ current_image_index < Len(images)
            /\ current_image = images[current_image_index + 1]

\* C22: no access images[current_image_index] made by next_image or by
\* update is out of range: neither raises IndexError.
C22_IndexAlwaysValid ==
  raised \notin {"IndexError in next_image", "IndexError in update"}
====
